---- MODULE Spec2Model ----
(***************************************************************************)
(* Model of HashMap<Key, Value, Hash> (src/hash_map.h): a hash table whose *)
(* chains all live in one std::list, with a bucket index (first_occ_,      *)
(* used_) of iterators into that list.                                     *)
(*                                                                         *)
(* list_ is a sequence of <<key, value>> pairs.  An iterator into list_ is *)
(* the position of the node it denotes; because std::list iterators keep   *)
(* denoting the same node while other nodes come and go, every stored      *)
(* iterator is moved along with its node when list_ changes (Opened,       *)
(* Closed).  An iterator that denotes no node of list_ (value-initialised, *)
(* or its node was destroyed) is Invalid.                                  *)
(***************************************************************************)
EXTENDS Integers, Sequences, FiniteSets, Bags, TLC

\* ---- bounds of the model -------------------------------------------------
MaxKey == 2            \* keys are 0 .. MaxKey
MaxVal == 1            \* values are 0 .. MaxVal
MaxCount == 4          \* calls that would take size_ beyond this are not made
MaxInput == 3          \* longest range handed to a range constructor
MaxGrow == 7           \* the cap on size_ in SpecGrow
MaxTriplings == 16     \* SpecArith: table sizes after up to this many resizes
MaxMargin == 6         \* SpecArith: size_ is at most this far beyond 2 * hashmod_

Keys == 0 .. MaxKey
Values == 0 .. MaxVal
HashFns == {"sq"}      \* the Hash instances a map is constructed with

\* ---- program constants ---------------------------------------------------
LOAD_FACTOR == 2
RESIZE_FACTOR == 3
InitHashmod == 1
DefaultValue == 0      \* Value()

End == 0               \* list_.end()
Invalid == -1          \* an iterator that denotes no node of list_
Wild == -2             \* what dereferencing an Invalid iterator yields
FloatRange == 16777216 \* 2^24: every integer below it is a float

VARIABLES m, last
vars == <<m, last>>

\* ---- std::list and its iterators -----------------------------------------
\* list_.insert(pos, e): e goes right before the node at pos
InsertAt(l, pos, e) == SubSeq(l, 1, pos - 1) \o <<e>> \o SubSeq(l, pos, Len(l))

\* list_.erase(pos)
RemoveAt(l, pos) == SubSeq(l, 1, pos - 1) \o SubSeq(l, pos + 1, Len(l))

\* the stored iterators after a node was linked in at pos
Opened(fo, pos) == [h \in DOMAIN fo |-> IF fo[h] >= pos THEN fo[h] + 1 ELSE fo[h]]

\* the stored iterators after the node at pos was destroyed
Closed(fo, pos) == [h \in DOMAIN fo |->
                      IF fo[h] = pos THEN Invalid
                      ELSE IF fo[h] > pos THEN fo[h] - 1 ELSE fo[h]]

\* An iterator into the list of the map this one was copied from: the node at
\* position p of that list.  These lie below Wild, so Opened and Closed leave
\* them alone.
Foreign(p) == Wild - p
IsForeign(c) == c < Wild
ForeignPos(c) == Wild - c

\* ---- Hash ----------------------------------------------------------------
\* the Hash instance "sq" maps k to k * k, so that keys share buckets in a
\* table of size RESIZE_FACTOR as well as in the initial one
hasher(f, k) == IF f = "sq" THEN k * k ELSE k

geth(t, k) == hasher(t.hasher_, k) % t.hashmod_

\* ---- private members -----------------------------------------------------
\* clear as it would be if it gave the table its initial size back
clear_shrink(t) == [t EXCEPT !.hashmod_ = InitHashmod,
                             !.used_ = [h \in 0 .. InitHashmod - 1 |-> FALSE],
                             !.list_ = <<>>,
                             !.first_occ_ = [h \in 0 .. InitHashmod - 1 |-> Invalid],
                             !.size_ = 0]

\* list_.clear() destroys every node, so every stored iterator dangles
clear(t) == [t EXCEPT !.used_ = [h \in 0 .. t.hashmod_ - 1 |-> FALSE],
                      !.list_ = <<>>,
                      !.first_occ_ = [h \in DOMAIN @ |->
                                        IF IsForeign(@[h]) THEN @[h] ELSE Invalid],
                      !.size_ = 0]

RECURSIVE add(_, _, _), rehash(_, _), addit(_, _)

\* add(const KeyValuePair&) over a range: addit, and the loops of rehash and
\* operator=
addit(t, ps) == IF ps = <<>> THEN t
                ELSE addit(add(t, Head(ps), geth(t, Head(ps)[1])), Tail(ps))

rehash(t, new_size) ==
    LET ns == IF new_size = 0 THEN 1 ELSE new_size
        cop == t.list_
        c == clear(t)
        r == [c EXCEPT !.hashmod_ = ns,
                       !.first_occ_ = [h \in 0 .. ns - 1 |-> Invalid],
                       !.used_ = [h \in 0 .. ns - 1 |-> FALSE],
                       !.rehashes = @ + 1]
        res == addit(r, cop)
    IN [res EXCEPT !.nested = @ \/ res.rehashes > r.rehashes]

\* size_t -> float: the nearest value with a 24-bit significand, ties to the
\* even significand; u is the spacing of the floats around n
RECURSIVE Ulp(_, _)
Ulp(n, u) == IF n \div u < FloatRange THEN u ELSE Ulp(n, 2 * u)

Float(n) == LET u == Ulp(n, 1)
                q == n \div u
                r == n % u
            IN IF 2 * r > u \/ (2 * r = u /\ q % 2 = 1) THEN (q + 1) * u ELSE q * u

\* size_ > hashmod_ * LOAD_FACTOR: both sides of the comparison are floats
Overloaded(t) == Float(t.size_) > Float(Float(t.hashmod_) * LOAD_FACTOR)

\* hashmod_ * RESIZE_FACTOR: a float product, converted back to size_t
Grown(hashmod) == Float(Float(hashmod) * RESIZE_FACTOR)

\* tryresize as it would be with a threshold of RESIZE_FACTOR * hashmod_
tryresize_late(t) == IF Float(t.size_) > Grown(t.hashmod_)
                     THEN rehash(t, Grown(t.hashmod_))
                     ELSE t

tryresize(t) == IF Overloaded(t)
                THEN rehash(t, Grown(t.hashmod_))
                ELSE t

\* add as it would be if a colliding entry went to the front of list_
add_front(t, p, h) ==
    LET s == [t EXCEPT !.size_ = @ + 1]
    IN IF ~s.used_[h]
       THEN [s EXCEPT !.used_[h] = TRUE,
                      !.list_ = Append(@, p),
                      !.first_occ_[h] = Len(s.list_) + 1]
       ELSE tryresize([s EXCEPT !.list_ = InsertAt(@, 1, p),
                                !.first_occ_ = [Opened(@, 1) EXCEPT ![h] = 1]])

\* add as it would be if it checked the load after every insertion
add_checked(t, p, h) ==
    LET s == [t EXCEPT !.size_ = @ + 1]
    IN IF ~s.used_[h]
       THEN tryresize([s EXCEPT !.used_[h] = TRUE,
                                !.list_ = Append(@, p),
                                !.first_occ_[h] = Len(s.list_) + 1])
       ELSE LET pos == s.first_occ_[h]
            IN IF pos = Invalid \/ IsForeign(pos)
               THEN [s EXCEPT !.ub = TRUE]
               ELSE tryresize([s EXCEPT !.list_ = InsertAt(@, pos, p),
                                        !.first_occ_ = [Opened(@, pos) EXCEPT ![h] = pos]])

add(t, p, h) ==
    LET s == [t EXCEPT !.size_ = @ + 1]
    IN IF ~s.used_[h]
       THEN [s EXCEPT !.used_[h] = TRUE,
                      !.list_ = Append(@, p),
                      !.first_occ_[h] = Len(s.list_) + 1]
       ELSE LET pos == s.first_occ_[h]
            IN IF pos = Invalid \/ IsForeign(pos)
               THEN [s EXCEPT !.ub = TRUE]
               ELSE tryresize([s EXCEPT !.list_ = InsertAt(@, pos, p),
                                        !.first_occ_ = [Opened(@, pos) EXCEPT ![h] = pos]])

\* scan as it would be if it looked at the first entry of the bucket only
scan_first(t, k, h, c) ==
    IF c > Len(t.list_) \/ geth(t, t.list_[c][1]) # h THEN End
    ELSE IF t.list_[c][1] = k THEN c
    ELSE End

\* scan as it would be if it stopped at the first entry of another key
\* instead of at the bucket boundary
scan_eager(t, k, h, c) ==
    IF c > Len(t.list_) THEN End
    ELSE IF t.list_[c][1] = k THEN c
    ELSE End

\* the while loop of find, from the node at c on
RECURSIVE scan(_, _, _, _)
scan(t, k, h, c) ==
    IF c > Len(t.list_) \/ geth(t, t.list_[c][1]) # h THEN End
    ELSE IF t.list_[c][1] = k THEN c
    ELSE scan(t, k, h, c + 1)

\* the same loop when c is a node of the list this map was copied from: c is
\* never this map's end(), so the loop runs on into that list's end() and
\* dereferences it unless the bucket ends or the key is found before
RECURSIVE scanForeign(_, _, _, _)
scanForeign(t, k, h, c) ==
    IF c > Len(t.alien) THEN Wild
    ELSE IF geth(t, t.alien[c][1]) # h THEN End
    ELSE IF t.alien[c][1] = k THEN Foreign(c)
    ELSE scanForeign(t, k, h, c + 1)

\* find(const Key&, size_t): the iterator of the entry found, End when there
\* is none
find(t, k, h) ==
    IF ~t.used_[h] THEN End
    ELSE IF t.first_occ_[h] = Invalid THEN Wild
    ELSE IF IsForeign(t.first_occ_[h]) THEN scanForeign(t, k, h, ForeignPos(t.first_occ_[h]))
    ELSE scan(t, k, h, t.first_occ_[h])

count(t, k, h) == find(t, k, h) # End

\* erase(iterator, size_t) as it would be if it never moved first_occ_[h] on
erase_nomove(t, er, h) ==
    LET u == IF t.first_occ_[h] = er
             THEN [t EXCEPT !.used_[h] = FALSE]
             ELSE t
    IN [u EXCEPT !.list_ = RemoveAt(@, er),
                 !.first_occ_ = Closed(@, er)]

\* erase(iterator er, size_t h); er denotes a node of list_, or of the list
\* this map was copied from, and list_.erase of such a node is undefined
erase(t, er, h) ==
    LET u == IF t.first_occ_[h] = er
             THEN IF er = Len(t.list_) \/ geth(t, t.list_[er + 1][1]) # h
                  THEN [t EXCEPT !.used_[h] = FALSE]
                  ELSE [t EXCEPT !.first_occ_[h] = er + 1]
             ELSE t
    IN IF IsForeign(er)
       THEN [t EXCEPT !.ub = TRUE]
       ELSE [u EXCEPT !.list_ = RemoveAt(@, er),
                      !.first_occ_ = Closed(@, er)]

\* ---- public members ------------------------------------------------------
\* the object before a constructor body runs: the default member initialisers
\* (rehashes counts the rehash calls of the current public call, nested tells
\* that a rehash was called from the reinsertion loop of another, ub that the
\* map dereferenced an iterator that denotes no node or handed list_ an
\* iterator of another list, alien is the list of the map this one was
\* copied from)
Members(f) == [hashmod_ |-> InitHashmod, list_ |-> <<>>, size_ |-> 0,
               first_occ_ |-> <<>>, used_ |-> <<>>, hasher_ |-> f,
               alien |-> <<>>, rehashes |-> 0, nested |-> FALSE, ub |-> FALSE]

\* HashMap(Hash)
HashMapDefault(f) == rehash(Members(f), InitHashmod)

\* HashMap(It, It, Hash) and HashMap(initializer_list, Hash)
HashMapRange(ps, f) == addit(rehash(Members(f), InitHashmod), ps)

\* the implicit copy constructor: every member is copied; the copy of list_
\* has nodes of its own, the copies of the iterators in first_occ_ denote the
\* nodes of src.list_
HashMapCopy(src) ==
    [src EXCEPT !.first_occ_ = [h \in DOMAIN @ |->
                                 IF @[h] \in 1 .. Len(src.list_) THEN Foreign(@[h]) ELSE @[h]],
                !.alien = src.list_]

\* operator= as it would be if it went back to the initial table size
assign_reset(t, src) ==
    LET v == src.list_
        c == clear(t)
        d == [c EXCEPT !.hasher_ = src.hasher_]
    IN addit(rehash(d, InitHashmod), v)

\* operator=(const HashMap &h)
assign(t, src) ==
    LET v == src.list_
        c == clear(t)
        d == [c EXCEPT !.hasher_ = src.hasher_]
    IN addit(rehash(d, d.hashmod_), v)

findKey(t, k) == find(t, k, geth(t, k))

empty(t) == t.list_ = <<>>
size(t) == t.size_

\* insert as it would be without the count check
insert_nocheck(t, p) == add(t, p, geth(t, p[1]))

\* insert as it would be if it replaced the value of a stored key
insert_overwrite(t, p) ==
    LET h == geth(t, p[1])
    IN IF find(t, p[1], h) = Wild THEN [t EXCEPT !.ub = TRUE]
       ELSE IF ~count(t, p[1], h) THEN add(t, p, h)
       ELSE [t EXCEPT !.list_[find(t, p[1], h)] = p]

insert(t, p) ==
    LET h == geth(t, p[1])
    IN IF find(t, p[1], h) = Wild THEN [t EXCEPT !.ub = TRUE]
       ELSE IF ~count(t, p[1], h) THEN add(t, p, h) ELSE t

\* erase(iterator) as it would be with --size_
eraseIt_dec(t, it) ==
    erase([t EXCEPT !.size_ = @ - 1], it, geth(t, t.list_[it][1]))

\* erase(iterator it); it denotes a node of list_
eraseIt(t, it) == erase(t, it, geth(t, t.list_[it][1]))

\* erase(const Key&) as it would be without --size_
eraseKey_nodec(t, k) ==
    LET h == geth(t, k)
        it == find(t, k, h)
    IN IF it = Wild THEN [t EXCEPT !.ub = TRUE]
       ELSE IF it # End THEN erase(t, it, h)
       ELSE t

\* erase(const Key&) as it would be if --size_ came before the lookup
eraseKey_blind(t, k) ==
    LET h == geth(t, k)
        it == find(t, k, h)
    IN IF it = Wild THEN [t EXCEPT !.ub = TRUE]
       ELSE IF it # End THEN erase([t EXCEPT !.size_ = @ - 1], it, h)
       ELSE [t EXCEPT !.size_ = IF @ > 0 THEN @ - 1 ELSE @]

\* erase(const Key&)
eraseKey(t, k) ==
    LET h == geth(t, k)
        it == find(t, k, h)
    IN IF it = Wild THEN [t EXCEPT !.ub = TRUE]
       ELSE IF it # End THEN erase([t EXCEPT !.size_ = @ - 1], it, h)
       ELSE t

\* operator[]: the map afterwards
index(t, k) ==
    LET it == findKey(t, k)
    IN IF it = Wild THEN [t EXCEPT !.ub = TRUE]
       ELSE IF it = End
            THEN LET a == add(t, <<k, DefaultValue>>, geth(t, k))
                 IN IF a.ub \/ findKey(a, k) \in {End, Wild}
                    THEN [a EXCEPT !.ub = TRUE]
                    ELSE a
            ELSE t

\* operator[]: the iterator whose ->second it returns, in the map afterwards
indexRef(t, k) == findKey(index(t, k), k)

\* at(): TRUE when it throws std::out_of_range
atThrows(t, k) == findKey(t, k) = End


\* ---- the program: calls of the public members on a map m -----------------
\* last records the latest call: its name, its arguments (key k, value v,
\* range or source entries ps, source hash f), what it returned, whether it
\* threw, and how many times rehash ran inside it
Call(op, k, v, ps, f, ret, threw, n) ==
    [op |-> op, k |-> k, v |-> v, ps |-> ps, f |-> f,
     ret |-> ret, threw |-> threw, rehashes |-> n]

Entered(t) == [t EXCEPT !.rehashes = 0]

\* the call leaves the map as r
Returns(r, c) ==
    /\ m' = Entered(r)
    /\ last' = c

SeqsUpTo(S, n) == UNION {[1 .. len -> S] : len \in 0 .. n}

Inputs == SeqsUpTo(Keys \X Values, MaxInput)

\* the iterators a caller can hold: list_ never gets longer than this
Iterators == 1 .. MaxCount + MaxInput

RECURSIVE insertAll(_, _)
insertAll(t, ps) == IF ps = <<>> THEN t
                    ELSE insertAll(insert(t, Head(ps)), Tail(ps))

\* the maps handed to operator= as its right-hand side: maps filled by
\* insert calls, and maps built by a range constructor; the value of an entry
\* is chosen by its key
SourcePairs == {<<k, k % (MaxVal + 1)>> : k \in Keys}

SourceInputs == SeqsUpTo(SourcePairs, MaxInput)

SourcesKey == {Entered(insertAll(HashMapDefault(f), ps)) : ps \in SourceInputs, f \in HashFns}

Sources == SourcesKey \cup {Entered(HashMapRange(ps, f)) : ps \in SourceInputs, f \in HashFns}

\* a map starts its life in a constructor: the default one (Init), or any of
\* the three (InitAny)
Init ==
    /\ m \in {Entered(HashMapDefault(f)) : f \in HashFns}
    /\ last = Call("HashMap", 0, 0, <<>>, m.hasher_, 0, FALSE, 1)

InitAny ==
    \/ Init
    \/ \E ps \in Inputs, f \in HashFns :
          /\ m = Entered(HashMapRange(ps, f))
          /\ last = Call("HashMapRange", 0, 0, ps, f, 0, FALSE, HashMapRange(ps, f).rehashes)

\* insert, called when it leaves size_ within cap
InsertUpTo(k, v, cap) ==
    LET r == insert(m, <<k, v>>)
    IN /\ ~m.ub
       /\ r.size_ <= cap
       /\ Returns(r, Call("insert", k, v, <<>>, m.hasher_, 0, FALSE, r.rehashes))

Insert(k, v) == InsertUpTo(k, v, MaxCount)

\* operator[], called when it leaves size_ within cap
IndexUpTo(k, cap) ==
    LET r == index(m, k)
    IN /\ ~m.ub
       /\ r.size_ <= cap
       /\ Returns(r, Call("operator[]", k, 0, <<>>, m.hasher_,
                          IF r.ub THEN Wild ELSE r.list_[indexRef(m, k)][2],
                          FALSE, r.rehashes))

Index(k) == IndexUpTo(k, MaxCount)

EraseKey(k) ==
    LET r == eraseKey(m, k)
    IN /\ ~m.ub
       /\ Returns(r, Call("erase", k, 0, <<>>, m.hasher_, 0, FALSE, r.rehashes))

EraseIt(it) ==
    LET r == eraseIt(m, it)
    IN /\ ~m.ub
       /\ it \in 1 .. Len(m.list_)
       /\ Returns(r, Call("eraseIt", m.list_[it][1], 0, <<>>, m.hasher_, it, FALSE, r.rehashes))

Clear ==
    LET r == clear(m)
    IN /\ ~m.ub
       /\ Returns(r, Call("clear", 0, 0, <<>>, m.hasher_, 0, FALSE, r.rehashes))

\* a = b
Assign(src) ==
    LET r == assign(m, src)
    IN /\ ~m.ub
       /\ Returns(r, Call("operator=", 0, 0, src.list_, src.hasher_, 0, FALSE, r.rehashes))

\* a = a
AssignSelf ==
    LET r == assign(m, m)
    IN /\ ~m.ub
       /\ Returns(r, Call("operator=self", 0, 0, m.list_, m.hasher_, 0, FALSE, r.rehashes))

At(k) ==
    /\ ~m.ub
    /\ IF findKey(m, k) = Wild
       THEN Returns([m EXCEPT !.ub = TRUE], Call("at", k, 0, <<>>, m.hasher_, Wild, FALSE, 0))
       ELSE Returns(m, Call("at", k, 0, <<>>, m.hasher_,
                            IF atThrows(m, k) THEN 0 ELSE m.list_[findKey(m, k)][2],
                            atThrows(m, k), 0))

Find(k) ==
    /\ ~m.ub
    /\ IF findKey(m, k) = Wild
       THEN Returns([m EXCEPT !.ub = TRUE], Call("find", k, 0, <<>>, m.hasher_, Wild, FALSE, 0))
       ELSE Returns(m, Call("find", k, 0, <<>>, m.hasher_, findKey(m, k), FALSE, 0))

\* the calls that keep to the key-addressed interface of a default-constructed map
NextKey ==
    \/ \E k \in Keys, v \in Values : Insert(k, v)
    \/ \E k \in Keys : Index(k)
    \/ \E k \in Keys : EraseKey(k)
    \/ Clear
    \/ \E src \in SourcesKey : Assign(src)
    \/ AssignSelf
    \/ \E k \in Keys : At(k)
    \/ \E k \in Keys : Find(k)

\* the same calls and erase(iterator)
NextHandle ==
    \/ NextKey
    \/ \E it \in Iterators : EraseIt(it)

\* insert, operator[], both erase and clear alone, with size_ allowed to run
\* further ahead of the list
NextGrow ==
    \/ \E k \in Keys, v \in Values : InsertUpTo(k, v, MaxGrow)
    \/ \E k \in Keys : IndexUpTo(k, MaxGrow)
    \/ \E k \in Keys : EraseKey(k)
    \/ \E it \in Iterators : EraseIt(it)
    \/ Clear

Next ==
    \/ \E k \in Keys, v \in Values : Insert(k, v)
    \/ \E k \in Keys : Index(k)
    \/ \E k \in Keys : EraseKey(k)
    \/ Clear
    \/ \E src \in Sources : Assign(src)
    \/ AssignSelf
    \/ \E k \in Keys : At(k)
    \/ \E k \in Keys : Find(k)
    \/ \E it \in Iterators : EraseIt(it)

\* every public member, on a map built by any constructor
Spec == InitAny /\ [][Next]_vars

\* the key-addressed members on a default-constructed map
SpecKey == Init /\ [][NextKey]_vars

\* the key-addressed members and erase(iterator) on a default-constructed map
SpecHandle == Init /\ [][NextHandle]_vars

\* a default-constructed map whose table grows twice
SpecGrow == Init /\ [][NextGrow]_vars

\* every constructor and the calls that address entries by key
SpecBuilt == InitAny /\ [][NextKey]_vars

\* HashMap b(a): a map that starts its life as a copy of a map a filled by
\* insert calls, a staying alive and unchanged; then find, insert, erase(key)
\* and clear on the copy
InitCopy ==
    /\ m \in {Entered(HashMapCopy(src)) : src \in SourcesKey}
    /\ last = Call("HashMapCopy", 0, 0, m.alien, m.hasher_, 0, FALSE, 0)

NextCopy ==
    \/ \E k \in Keys : Find(k)
    \/ \E k \in Keys, v \in Values : Insert(k, v)
    \/ \E k \in Keys : EraseKey(k)
    \/ Clear

SpecCopy == InitCopy /\ [][NextCopy]_vars

\* ---- the arithmetic of tryresize on large tables ---------------------------
\* hashmod_ after n resizes of a map constructed with hashmod_ = 1
RECURSIVE SizeAfter(_)
SizeAfter(n) == IF n = 0 THEN InitHashmod ELSE Grown(SizeAfter(n - 1))

\* hashmod_ and size_ as add's collision branch hands them to tryresize: size_
\* counts the new entry (at least two entries share the bucket) and is small
\* enough for the reinsertion not to resize again; the list and the two vectors
\* are left out, tryresize's decision reads none of them
InitArith ==
    /\ m \in {[hashmod_ |-> SizeAfter(n), size_ |-> LOAD_FACTOR * SizeAfter(n) + d] :
                n \in 0 .. MaxTriplings, d \in -2 .. MaxMargin}
    /\ m.size_ >= 2
    /\ m.size_ <= LOAD_FACTOR * Grown(m.hashmod_)
    /\ last = Call("add", 0, 0, <<>>, "sq", 0, FALSE, 0)

\* tryresize, as far as hashmod_ goes
TryResize ==
    /\ last.op = "add"
    /\ m' = IF Overloaded(m) THEN [m EXCEPT !.hashmod_ = Grown(@)] ELSE m
    /\ last' = Call("tryresize", 0, 0, <<>>, "sq", 0, FALSE, IF Overloaded(m) THEN 1 ELSE 0)

NextArith == TryResize

SpecArith == InitArith /\ [][NextArith]_vars

\* ---- vocabulary of the properties ----------------------------------------
\* positions of a full begin()..end() iteration
Pos(t) == 1 .. Len(t.list_)

KeyAt(t, x) == t.list_[x][1]
ValAt(t, x) == t.list_[x][2]

\* bucket of the entry at position x, recomputed from its key
BucketAt(t, x) == geth(t, KeyAt(t, x))

\* a reference lookup over the whole sequence
Present(t, k) == \E x \in Pos(t) : KeyAt(t, x) = k

\* the entries of a sequence, with multiplicity
BagOf(l) == [e \in {l[x] : x \in 1 .. Len(l)} |->
               Cardinality({x \in 1 .. Len(l) : l[x] = e})]

\* find(k) succeeds and yields v
FindYields(t, k, v) == /\ findKey(t, k) \in Pos(t)
                       /\ KeyAt(t, findKey(t, k)) = k
                       /\ ValAt(t, findKey(t, k)) = v

Grouped(t) == \A x \in Pos(t), y \in Pos(t), z \in Pos(t) :
                 (x < y /\ y < z /\ BucketAt(t, x) = BucketAt(t, z))
                    => BucketAt(t, y) = BucketAt(t, x)

\* C1: after any sequence of public operations the entries that share a
\* bucket (hash(key) mod table_size) form one contiguous run of the sequence.
C1_Grouping == Grouped(m)

\* C1 witness: an insert that spliced an entry into an occupied bucket of a
\* table with another occupied bucket, without resizing
C1_Witness ==
    /\ last.op = "insert" /\ last.rehashes = 0
    /\ \E x \in Pos(m), y \in Pos(m), z \in Pos(m) :
          /\ x # y /\ BucketAt(m, x) = BucketAt(m, y)
          /\ BucketAt(m, z) # BucketAt(m, x)
          /\ KeyAt(m, x) = last.k /\ ValAt(m, x) = last.v
          /\ m.first_occ_[BucketAt(m, x)] = x

\* C2: from a default-constructed map, insert, operator[], erase(key), clear
\* and copy-assignment never leave two entries with the same key.
C2_Uniqueness == \A x \in Pos(m), y \in Pos(m) : KeyAt(m, x) = KeyAt(m, y) => x = y

\* C2 witness: insert(k, v) was called while k was stored with another value
C2_Witness ==
    /\ last.op = "insert"
    /\ \E x \in Pos(m) : KeyAt(m, x) = last.k /\ ValAt(m, x) # last.v
    /\ Len(m.list_) >= 2

\* first position of key k in a range
FirstOf(ps, k) == CHOOSE x \in 1 .. Len(ps) :
                     /\ ps[x][1] = k
                     /\ \A y \in 1 .. x - 1 : ps[y][1] # k

\* C3 (as claimed): a range constructor keeps, for a key that occurs in its
\* input, exactly one entry, with the value of the first occurrence, and
\* size() counts the distinct keys.
C3_BulkIsRepeatedInsert ==
    last.op = "HashMapRange" =>
       /\ \A x \in 1 .. Len(last.ps) :
             /\ Cardinality({y \in Pos(m) : KeyAt(m, y) = last.ps[x][1]}) = 1
             /\ FindYields(m, last.ps[x][1], last.ps[FirstOf(last.ps, last.ps[x][1])][2])
       /\ size(m) = Cardinality({last.ps[x][1] : x \in 1 .. Len(last.ps)})

\* C4 (as claimed): in every reachable state, insert(k, v) of an absent k
\* makes find(k) yield v, and after erase(k) find(k) reports absent.
C4_RoundTrip ==
    [][/\ (last'.op = "insert" /\ ~Present(m, last'.k))
             => FindYields(m', last'.k, last'.v)
       /\ last'.op = "erase" => findKey(m', last'.k) = End]_vars

\* C5: on the key-addressed interface size() is the number of entries a full
\* iteration yields, and empty() holds exactly when size() is 0.
C5_Count == /\ size(m) = Len(m.list_)
            /\ empty(m) <=> size(m) = 0

\* C5 witness: an erase(key) that removed an entry from a resized table and
\* left others behind
C5_Witness == /\ last.op = "erase" /\ ~Present(m, last.k)
              /\ m.hashmod_ > InitHashmod
              /\ size(m) = 2

\* C6 (as claimed): an insert or operator[] that rehashes keeps every entry,
\* adds the new one, and find yields the unchanged value of each of them.
C6_Growth ==
    [][(last'.op \in {"insert", "operator[]"} /\ last'.rehashes >= 1) =>
          /\ BagOf(m'.list_) = BagOf(m.list_) (+) SetToBag({<<last'.k, last'.v>>})
          /\ \A x \in Pos(m') : FindYields(m', KeyAt(m', x), ValAt(m', x))
          /\ \A x \in Pos(m) : findKey(m, KeyAt(m, x)) \in Pos(m)
                                  => FindYields(m', KeyAt(m, x), ValAt(m, findKey(m, KeyAt(m, x))))]_vars

\* C7: insert(k, v2) on a map that holds k changes nothing: entries, order,
\* size(), bucket index and table_size stay, and rehash does not run.
C7_IdempotentInsert ==
    [][(last'.op = "insert" /\ Present(m, last'.k)) =>
          /\ m' = m
          /\ last'.rehashes = 0]_vars

\* C7 witness: insert(k, v2) on a map that holds k with another value and
\* whose size() is above the load threshold
C7_Witness ==
    /\ last.op = "insert"
    /\ \E x \in Pos(m) : KeyAt(m, x) = last.k /\ ValAt(m, x) # last.v
    /\ size(m) > m.hashmod_ * LOAD_FACTOR

\* C8 (as claimed): operator[] on an absent key adds exactly one entry
\* (k, Value()), increases size() by one and returns that entry's value;
\* on a present key it adds nothing and returns the stored value.
C8_DefaultOnMissing ==
    [][last'.op = "operator[]" =>
          IF ~Present(m, last'.k)
          THEN /\ BagOf(m'.list_) = BagOf(m.list_) (+) SetToBag({<<last'.k, DefaultValue>>})
               /\ size(m') = size(m) + 1
               /\ last'.ret = DefaultValue
               /\ FindYields(m', last'.k, DefaultValue)
          ELSE /\ m' = m
               /\ \E x \in Pos(m) : KeyAt(m, x) = last'.k /\ ValAt(m, x) = last'.ret]_vars

\* C9: at(k) throws exactly when no entry has key k and otherwise returns a
\* value stored for k; it never changes the map; no other call throws or
\* steps outside the list.
C9_AtThrows ==
    [][/\ last'.op = "at" =>
             /\ last'.threw <=> ~Present(m, last'.k)
             /\ ~last'.threw => \E x \in Pos(m) : KeyAt(m, x) = last'.k /\ ValAt(m, x) = last'.ret
             /\ m' = m
       /\ last'.op # "at" => ~last'.threw
       /\ ~m'.ub /\ last'.ret # Wild]_vars

\* C9 witness: at(k) threw although the bucket of k is occupied
C9_Witness == /\ last.op = "at" /\ last.threw
              /\ m.used_[geth(m, last.k)]
              /\ m.hashmod_ > InitHashmod

\* table_size after inserting the entries todo, one by one, into a table of
\* size T that holds the entries done: a key that lands in an occupied bucket
\* triples T when the count is above LOAD_FACTOR * T
RECURSIVE TableSizeAfter(_, _, _, _)
TableSizeAfter(T, f, done, todo) ==
    IF todo = <<>> THEN T
    ELSE LET e == Head(todo)
             hit == \E x \in 1 .. Len(done) :
                       hasher(f, done[x][1]) % T = hasher(f, e[1]) % T
             T2 == IF hit /\ Len(done) + 1 > T * LOAD_FACTOR
                   THEN T * RESIZE_FACTOR ELSE T
         IN TableSizeAfter(T2, f, Append(done, e), Tail(todo))

\* C10 (as claimed): after a = b, a's table_size is the one reached by
\* inserting b's entries, in b's order, into a fresh map of table_size 1.
C10_AssignFromInitialSize ==
    last.op \in {"operator=", "operator=self"} =>
       m.hashmod_ = TableSizeAfter(InitHashmod, last.f, <<>>, last.ps)

\* C10 (amended): after a = b, a's table_size is the one reached by inserting
\* b's entries, in b's order, into an empty map that has the table_size a had
\* before the assignment; b's table_size plays no part.
C10_AssignFromOwnSize ==
    [][last'.op \in {"operator=", "operator=self"} =>
          m'.hashmod_ = TableSizeAfter(m.hashmod_, last'.f, <<>>, last'.ps)]_vars

\* C10 witness: a = b left a with a table larger than b's entries account for
C10_Witness == /\ last.op = "operator="
               /\ m.hashmod_ > InitHashmod
               /\ Len(m.list_) <= InitHashmod * LOAD_FACTOR
               /\ Len(m.list_) >= 1

\* C11 (as claimed): after a = b, a holds exactly the entries of b, each as
\* often as b does, and a.size() is b.size(); a = a leaves the entries and
\* size() of a as they were.
C11_AssignContent ==
    [][/\ last'.op = "operator=" =>
             /\ BagOf(m'.list_) = BagOf(last'.ps)
             /\ size(m') = Len(last'.ps)
       /\ last'.op = "operator=self" =>
             /\ BagOf(m'.list_) = BagOf(m.list_)
             /\ size(m') = size(m)]_vars

\* C12: table_size is at least 1 and never decreases; it changes only in a
\* call that ran rehash, and erase (by key or iterator) and clear leave it
\* as it was however few entries remain.
C12_TableSizeMonotone ==
    [][/\ m.hashmod_ >= 1
       /\ m'.hashmod_ >= m.hashmod_
       /\ m'.hashmod_ # m.hashmod_ => last'.rehashes >= 1
       /\ last'.op \in {"erase", "eraseIt", "clear", "find", "at"}
             => m'.hashmod_ = m.hashmod_]_vars

\* C12 witness: clear on a table that had grown left it empty and as large
C12_Witness == /\ last.op = "clear"
               /\ m.hashmod_ > InitHashmod
               /\ m.list_ = <<>>

\* positions of the entries of bucket h
InBucket(t, h) == {x \in Pos(t) : BucketAt(t, x) = h}

\* the least element of a non-empty set of positions
Least(S) == CHOOSE x \in S : \A y \in S : x <= y

\* the bucket index of u is that of t after the entry at position x of t was
\* removed: its bucket is repaired, every other slot denotes the node it did
BucketRepaired(t, u, x) ==
    LET h == BucketAt(t, x)
    IN /\ u.hashmod_ = t.hashmod_
       /\ \A g \in 0 .. t.hashmod_ - 1 : g # h => u.used_[g] = t.used_[g]
       /\ \A g \in 0 .. t.hashmod_ - 1 :
             (g # h /\ t.used_[g]) => u.first_occ_[g] = Closed(t.first_occ_, x)[g]
       /\ IF t.first_occ_[h] = x
          THEN IF x < Len(t.list_) /\ BucketAt(t, x + 1) = h
               THEN u.used_[h] /\ u.first_occ_[h] = x
               ELSE ~u.used_[h]
          ELSE u.used_[h] = t.used_[h] /\ u.first_occ_[h] = Closed(t.first_occ_, x)[h]

\* C13: erase(iterator) on a live entry removes exactly that entry, repairs
\* the bucket as erase(key) does (first_occ_[h] moves to the successor in the
\* bucket, or the bucket becomes unoccupied), and leaves size() as it was.
C13_EraseIterator ==
    [][last'.op = "eraseIt" =>
          /\ m'.list_ = RemoveAt(m.list_, last'.ret)
          /\ Len(m'.list_) = Len(m.list_) - 1
          /\ BucketRepaired(m, m', last'.ret)
          /\ findKey(m, last'.k) = last'.ret
                => eraseKey(m, last'.k) = [m' EXCEPT !.size_ = @ - 1]
          /\ size(m') = size(m)]_vars

\* C13 witness: erase(iterator) took the first entry of a bucket whose
\* successor took its place, and size() is above the number of entries
C13_Witness ==
    /\ last.op = "eraseIt"
    /\ size(m) > Len(m.list_)
    /\ m.used_[geth(m, last.k)]
    /\ m.first_occ_[geth(m, last.k)] = last.ret
    /\ m.hashmod_ > InitHashmod

\* C14: after every public operation both arrays of the bucket index have
\* table_size slots, a bucket is marked occupied exactly when some entry
\* hashes to it, and first_occ_ of an occupied bucket denotes the earliest
\* entry of that bucket.
C14_BucketIndex ==
    /\ DOMAIN m.used_ = 0 .. m.hashmod_ - 1
    /\ DOMAIN m.first_occ_ = 0 .. m.hashmod_ - 1
    /\ \A h \in 0 .. m.hashmod_ - 1 :
          /\ m.used_[h] <=> InBucket(m, h) # {}
          /\ m.used_[h] => /\ m.first_occ_[h] \in Pos(m)
                           /\ m.first_occ_[h] = Least(InBucket(m, h))

\* C14 witness: erase(key) removed an entry from a bucket of a grown table
\* that stays occupied, next to an unoccupied bucket
C14_Witness ==
    /\ last.op = "erase" /\ ~Present(m, last.k)
    /\ m.hashmod_ > InitHashmod
    /\ m.used_[geth(m, last.k)]
    /\ \E h \in 0 .. m.hashmod_ - 1 : ~m.used_[h]

\* C15: in every reachable state and for every key k, find(k) returns an
\* entry with key k exactly when a full iteration yields one, and end()
\* otherwise.
C15_FindIsLookup ==
    \A k \in Keys :
       IF Present(m, k)
       THEN findKey(m, k) \in Pos(m) /\ KeyAt(m, findKey(m, k)) = k
       ELSE findKey(m, k) = End

\* C15 witness: find(k) returned an entry that is neither the first of its
\* bucket nor the last of the list
C15_Witness ==
    /\ last.op = "find"
    /\ last.ret \in Pos(m) /\ KeyAt(m, last.ret) = last.k
    /\ m.first_occ_[geth(m, last.k)] < last.ret
    /\ last.ret < Len(m.list_)

\* C16: an insertion of a new key changes table_size only when the key lands
\* in an occupied bucket and size_, counting the new entry, is above twice
\* table_size; table_size is then exactly three times what it was, after one
\* rehash. In every other case, an unoccupied bucket under any load included,
\* table_size stays.
C16_ResizeTrigger ==
    [][(last'.op \in {"insert", "operator[]"} /\ ~Present(m, last'.k)) =>
          IF m.used_[geth(m, last'.k)] /\ size(m) + 1 > 2 * m.hashmod_
          THEN m'.hashmod_ = 3 * m.hashmod_ /\ last'.rehashes = 1
          ELSE m'.hashmod_ = m.hashmod_ /\ last'.rehashes = 0]_vars

\* C16 witness: an insertion into an unoccupied bucket of a grown table whose
\* size_ is above twice table_size; the table did not grow
C16_Witness ==
    /\ last.op \in {"insert", "operator[]"} /\ last.rehashes = 0
    /\ m.hashmod_ > InitHashmod
    /\ size(m) > 2 * m.hashmod_
    /\ Len(m.list_) >= 2
    /\ InBucket(m, geth(m, last.k)) = {Len(m.list_)}
    /\ KeyAt(m, Len(m.list_)) = last.k


\* C16, on the table sizes a long-lived map takes: when tryresize is entered
\* with size_ (the new entry counted) above 2 * hashmod_, hashmod_ becomes
\* exactly 3 times what it was, and otherwise it stays.
C16_Tripling ==
    [][last'.op = "tryresize" =>
          IF m.size_ > 2 * m.hashmod_
          THEN m'.hashmod_ = 3 * m.hashmod_
          ELSE m'.hashmod_ = m.hashmod_]_vars


\* C17: erase(k) on a present key removes one entry with key k and leaves the
\* rest of the sequence as it was, keys, values and order; size() drops by
\* one and table_size stays. erase(k) on an absent key changes nothing.
C17_EraseFrame ==
    [][last'.op = "erase" =>
          IF Present(m, last'.k)
          THEN /\ \E x \in Pos(m) : /\ KeyAt(m, x) = last'.k
                                    /\ m'.list_ = RemoveAt(m.list_, x)
               /\ size(m') = size(m) - 1
               /\ m'.hashmod_ = m.hashmod_
          ELSE m' = m]_vars

\* C17 witness: erase(key) took an entry out of a grown table and three
\* entries, not all with the same value, are left
C17_Witness ==
    /\ last.op = "erase" /\ ~Present(m, last.k)
    /\ m.hashmod_ > InitHashmod
    /\ Len(m.list_) = 3
    /\ \E x, y \in Pos(m) : ValAt(m, x) # ValAt(m, y)


C19_CopyOwnsIndex ==
    /\ \A h \in 0 .. m.hashmod_ - 1 : m.used_[h] => m.first_occ_[h] \in Pos(m)
    /\ ~m.ub

====
